---------------------------- MODULE Spec2Model ----------------------------
(***************************************************************************)
(* hh-uz-parser: a Telegram bot that polls the hh.uz listing API, records  *)
(* the vacancies it has announced and relays new ones to its subscribers.  *)
(*                                                                         *)
(* The bot runs on one asyncio event loop.  A coroutine is only suspended  *)
(* at an `await`; everything between two awaits (the database calls and    *)
(* the blocking requests.get of fetch_vacancies included) runs without     *)
(* any other coroutine getting a turn.  Every action below is one such     *)
(* stretch of code: it starts where a coroutine is resumed and ends at the *)
(* next await that suspends it.                                            *)
(*                                                                         *)
(* A listing is represented by its id; its published_at is a function of   *)
(* the id.  Of a user row only first_name is kept: username is read and    *)
(* written by the same statements of get_or_create_user.                   *)
(***************************************************************************)
EXTENDS Integers, Sequences, FiniteSets

\* ------------------------------------------------------------------ bounds
MaxUsers == 2     \* chat ids that talk to the bot
MaxId    == 2     \* listing ids the API can return
MaxLen   == 2     \* listings in one API response
NPairs   == 2     \* (query, experience) pairs: SEARCH_QUERIES x EXPERIENCE_FILTERS
MaxTasks == 2     \* send_existing_vacancies_to_user tasks alive at a time
MaxSortId  == 5   \* listing ids in a list that is sorted on its own
MaxSortLen == 3   \* length of such a list

\* The cap of send_existing_vacancies_to_user (all_vacancies[:20]), scaled
\* to the size of the listing universe.
CatchUpLimit == 1

Tids  == 1..MaxUsers
Ids   == 1..MaxId
Pairs == 1..NPairs

None    == "None"
\* The first_name a chat id sends with /start: the first chat id may or may
\* not carry one, the others carry none.
NamesOf(t) == IF t = 1 THEN {None, "Ann"} ELSE {None}
EmptyId == 0          \* the id whose str() is "": falsy in `if vacancy_id and ...`

\* published_at of a listing: three timestamps, which the ids take in turn, so
\* that ids 3 apart share one.
published_at(v) == v % 3

Range(s) == {s[i] : i \in 1..Len(s)}

\* Sequences over S without repetition, of length at most n.
RECURSIVE DistinctSeqs(_, _)
DistinctSeqs(S, n) ==
    IF n = 0 THEN {<<>>}
    ELSE LET shorter == DistinctSeqs(S, n - 1)
         IN  shorter \cup
             {Append(p[1], p[2]) :
                 p \in {q \in shorter \X S : Len(q[1]) = n - 1 /\ q[2] \notin Range(q[1])}}

\* ------------------------------------------------- the outside world
\* What one GET /vacancies can end in: a JSON body with its items, a
\* requests.RequestException (no connection, timeout, raise_for_status on a
\* non-2xx answer), or a 2xx body that is not the expected JSON object, on
\* which response.json() / data.get raise something that is no
\* RequestException (ValueError before requests 2.27, AttributeError).
RequestException == {"connection", "timeout", "http"}
FetchFailures    == RequestException \cup {"bad_body"}
FetchOutcomes ==
    {[kind |-> "ok", items |-> s] : s \in DistinctSeqs(Ids, MaxLen)}
    \cup {[kind |-> f, items |-> <<>>] : f \in FetchFailures}

\* What one bot.send_message can end in: delivered, or a TelegramError
\* whose text is "Forbidden: bot was blocked by the user", "Forbidden: user
\* is deactivated", or anything else ("Timed out", "Chat not found").
TelegramError == {"blocked", "deactivated", "other"}
SendOutcomes  == {"ok"} \cup TelegramError

\* ------------------------------------------------------------- state
VARIABLES
    users,            \* table users: the rows, in insertion order
    seen_vacancies,   \* table seen_vacancies: rows per vacancy_id
    pc,               \* vacancy_checker: where the coroutine is suspended
    new_vacancies,    \* check_new_vacancies: the sorted new listings
    vi,               \* check_new_vacancies: index of `vacancy` in new_vacancies
    recipients,       \* send_to_all_users: `users`, the get_active_users() list
    ui,               \* send_to_all_users: index of the recipient being sent to
    sent_count,       \* send_to_all_users: sent_count
    task,             \* send_existing_vacancies_to_user tasks, one slot per chat id
    attempts,         \* history: the sends of the current send_to_all_users call
                      \* and how each ended
    called,           \* history: the listings send_to_all_users was called for, this cycle
    cycle,            \* history: what the fetch loop that has just run met
                      \* (failed: the pairs whose request raised a
                      \* RequestException, skipped: the listings line 300 did
                      \* not take), kept until the checker is next resumed,
                      \* what the cycle last logged (lines 312, 320, 336), and
                      \* lost: the listings the last cycle had taken and not
                      \* handed to send_to_all_users when an exception ended it,
                      \* kept while the loop sleeps, as is skipped after a
                      \* cycle that found nothing new
    vacancy,          \* format_vacancy_message: its argument
    message,          \* format_vacancy_message: what it returned
    unsorted,         \* list.sort: the list as the fetch loop left it
    sorted,           \* list.sort: the list after the sort
    inbox             \* history: for each recipient that is watched, how often
                      \* it has sent /start and how often each listing was
                      \* delivered to it

vars == <<users, seen_vacancies, pc, new_vacancies, vi, recipients, ui,
          sent_count, task, attempts, called, cycle, vacancy, message,
          unsorted, sorted, inbox>>

bot_vars == <<users, seen_vacancies, pc, new_vacancies, vi, recipients, ui,
              sent_count, task, attempts, called, cycle>>

checker_locals == <<new_vacancies, vi, recipients, ui, sent_count, attempts, called>>

calls == <<vacancy, message, unsorted, sorted>>

\* ------------------------------------------------------- database.py
UserRow(t, n) == [telegram_id |-> t, first_name |-> n, is_active |-> TRUE]

RowsOf(us, t) == {i \in 1..Len(us) : us[i].telegram_id = t}

\* db.query(User).filter(User.telegram_id == telegram_id).first()
FirstRow(us, t) == CHOOSE i \in RowsOf(us, t) : \A j \in RowsOf(us, t) : i <= j

\* An upsert that does not look for the row first.
get_or_create_user_insert(us, t, n) == Append(us, UserRow(t, n))

get_or_create_user(us, t, n) ==
    IF RowsOf(us, t) # {}
    THEN LET i == FirstRow(us, t)
         IN  [us EXCEPT ![i] =
                [@ EXCEPT !.first_name = IF n # None /\ @ # n THEN n ELSE @,
                          !.is_active  = TRUE]]
    ELSE Append(us, UserRow(t, n))

\* A deactivation that flips the flag.
deactivate_user_flip(us, t) ==
    IF RowsOf(us, t) # {}
    THEN [us EXCEPT ![FirstRow(us, t)].is_active = ~@]
    ELSE us

\* A deactivation that deletes the row.
deactivate_user_delete(us, t) == SelectSeq(us, LAMBDA r : r.telegram_id # t)

deactivate_user(us, t) ==
    IF RowsOf(us, t) # {}
    THEN [us EXCEPT ![FirstRow(us, t)].is_active = FALSE]
    ELSE us

get_active_users(us) ==
    LET act == SelectSeq(us, LAMBDA r : r.is_active)
    IN  [i \in 1..Len(act) |-> act[i].telegram_id]

\* A lookup that never finds the row.
is_vacancy_seen_never(sv, v) == FALSE

is_vacancy_seen(sv, v) == sv[v] > 0

\* A mark whose row is never committed.
mark_vacancy_seen_never(sv, v) == sv

\* An insert without the is_vacancy_seen test.
mark_vacancy_seen_unchecked(sv, v) == [sv EXCEPT ![v] = @ + 1]

mark_vacancy_seen(sv, v) ==
    IF ~is_vacancy_seen(sv, v) THEN [sv EXCEPT ![v] = @ + 1] ELSE sv

\* unique=True on SeenVacancy.vacancy_id: the commit of a second row for v
\* raises IntegrityError, and the row is not kept.
UniqueViolated(sv, v) == sv[v] > 1

\* ------------------------------------------------------------ bot.py
\* fetch_vacancies without its except clause.
fetch_vacancies_uncaught(o) ==
    IF o.kind = "ok" THEN [raised |-> FALSE, items |-> o.items]
    ELSE [raised |-> TRUE, items |-> <<>>]

\* fetch_vacancies: what the caller gets for each outcome of the request.
fetch_vacancies(o) ==
    IF o.kind = "ok" THEN [raised |-> FALSE, items |-> o.items]
    ELSE IF o.kind \in RequestException THEN [raised |-> FALSE, items |-> <<>>]
    ELSE [raised |-> TRUE, items |-> <<>>]

\* An insertion that puts x before the elements whose key equals its own.
RECURSIVE InsertDescStrict(_, _)
InsertDescStrict(s, x) ==
    IF s = <<>> THEN <<x>>
    ELSE IF published_at(Head(s)) > published_at(x)
         THEN <<Head(s)>> \o InsertDescStrict(Tail(s), x)
         ELSE <<x>> \o s

\* list.sort(key=published_at, reverse=True): stable, so listings with equal
\* keys keep their order.  Insert x behind every element whose key is >= its own.
RECURSIVE InsertDesc(_, _)
InsertDesc(s, x) ==
    IF s = <<>> THEN <<x>>
    ELSE IF published_at(Head(s)) >= published_at(x)
         THEN <<Head(s)>> \o InsertDesc(Tail(s), x)
         ELSE <<x>> \o s

RECURSIVE SortDesc(_)
SortDesc(s) ==
    IF s = <<>> THEN <<>>
    ELSE InsertDesc(SortDesc(SubSeq(s, 1, Len(s) - 1)), s[Len(s)])

\* Line 300 without the lookup in the table.
IsNewInRun(v, run, sv) == v # EmptyId /\ v \notin run

\* Line 300 without its two membership tests.
IsNewUnfiltered(v, run, sv) == v # EmptyId

\* check_new_vacancies, line 300: is this listing new?
IsNew(v, run, sv) == v # EmptyId /\ v \notin run /\ ~is_vacancy_seen(sv, v)

\* check_new_vacancies, lines 297-303: the listings of one response.
\* st = [new, run, seen]: new_vacancies, seen_in_this_run, the table.  A mark
\* that raises leaves the loop.
RECURSIVE CheckItems(_, _)
CheckItems(items, st) ==
    IF items = <<>> \/ st.raised THEN st
    ELSE LET v == Head(items)
             marked == mark_vacancy_seen(st.seen, v)
         IN  CheckItems(Tail(items),
                IF IsNew(v, st.run, st.seen)
                THEN IF UniqueViolated(marked, v)
                     THEN [st EXCEPT !.new = Append(@, v), !.raised = TRUE]
                     ELSE [st EXCEPT !.new  = Append(@, v),
                                     !.seen = marked,
                                     !.run  = @ \cup {v}]
                ELSE [st EXCEPT !.skipped = @ \cup {v}])

\* check_new_vacancies, lines 292-303: the pairs from k on.  An exception out
\* of fetch_vacancies leaves the loop with what was done so far.
RECURSIVE CheckLoop(_, _, _)
CheckLoop(k, resp, st) ==
    IF k > NPairs \/ st.raised THEN st
    ELSE LET r  == fetch_vacancies(resp[k])
             s1 == [st EXCEPT !.failed = IF resp[k].kind \in RequestException
                                         THEN @ \cup {k} ELSE @]
         IN  IF r.raised THEN [s1 EXCEPT !.raised = TRUE]
             ELSE CheckLoop(k + 1, resp, CheckItems(r.items, s1))

\* The loop without its mark: the listings are collected and not recorded.
RECURSIVE CatchUpItemsUnmarked(_, _)
CatchUpItemsUnmarked(items, st) ==
    IF items = <<>> \/ st.raised THEN st
    ELSE LET v == Head(items)
         IN  CatchUpItemsUnmarked(Tail(items),
                IF v # EmptyId /\ v \notin st.run
                THEN [st EXCEPT !.new = Append(@, v), !.run = @ \cup {v}]
                ELSE st)

\* send_existing_vacancies_to_user, lines 233-239: the listings of one response.
\* st = [new, run, seen]: all_vacancies, seen_ids, the table.
RECURSIVE CatchUpItems(_, _)
CatchUpItems(items, st) ==
    IF items = <<>> \/ st.raised THEN st
    ELSE LET v == Head(items)
             marked == mark_vacancy_seen(st.seen, v)
         IN  CatchUpItems(Tail(items),
                IF v # EmptyId /\ v \notin st.run
                THEN IF UniqueViolated(marked, v)
                     THEN [st EXCEPT !.new = Append(@, v), !.run = @ \cup {v},
                                     !.raised = TRUE]
                     ELSE [st EXCEPT !.new  = Append(@, v),
                                     !.run  = @ \cup {v},
                                     !.seen = marked]
                ELSE st)

\* send_existing_vacancies_to_user, lines 230-239.
RECURSIVE CatchUpLoop(_, _, _)
CatchUpLoop(k, resp, st) ==
    IF k > NPairs \/ st.raised THEN st
    ELSE LET r == fetch_vacancies(resp[k])
         IN  IF r.raised THEN [st EXCEPT !.raised = TRUE]
             ELSE CatchUpLoop(k + 1, resp, CatchUpItems(r.items, st))

LoopStart(sv) ==
    [new |-> <<>>, run |-> {}, seen |-> sv, raised |-> FALSE,
     failed |-> {}, skipped |-> {}]

\* A loop without the try: an exception ends the task.
AfterCycleUncaught(err) == IF err = "none" THEN "sleep" ELSE "dead"

\* vacancy_checker, lines 332-338: where the loop goes when a cycle is over,
\* err being what the cycle raised ("none": it returned).
AfterCycle(err) == "sleep"

\* No except clause.
IsCaughtNothing(o) == FALSE

\* send_to_all_users, line 214: the failures the except clause takes.
IsCaught(o) == o \in TelegramError

\* Line 216 with its first test only.
IsBlockedOnly(o) == o = "blocked"

\* send_to_all_users, line 216: "blocked" or "deactivated" in str(e).lower().
IsBlocked(o) == o \in {"blocked", "deactivated"}

NoCycle == [failed |-> {}, skipped |-> {}, log |-> "none", lost |-> {}]

\* What vacancy_checker and check_new_vacancies log when a cycle is over.
Logged(err) == IF err = "none" THEN "done" ELSE err
\* The messages of send_existing_vacancies_to_user: the header with the
\* count (line 252), a listing (line 264), the trailer with the count of the
\* listings not shown (line 280).
Header(n) == [kind |-> "header", arg |-> n]
Item(v)   == [kind |-> "item", arg |-> v]
Footer(n) == [kind |-> "footer", arg |-> n]

\* A task slot: where the task is suspended, its list, the index of the
\* listing being sent, and its history: the messages it has handed to
\* send_message so far (sent) and whether every send that has ended succeeded.
NoTask  == [pc |-> "none", all_vacancies |-> <<>>, i |-> 0, sent |-> <<>>, ok |-> TRUE]

\* A cycle is over (it returned, or raised err): the frame of
\* check_new_vacancies is gone and the loop sleeps.
EndCycle(err) ==
    /\ pc' = AfterCycle(err)
    /\ new_vacancies' = <<>>
    /\ vi' = 0
    /\ recipients' = <<>>
    /\ ui' = 0
    /\ sent_count' = 0
    /\ attempts' = <<>>
    /\ called' = <<>>

\* check_new_vacancies, lines 314-316 for new_vacancies[j], once its message
\* is rendered: send_to_all_users reads the active users and awaits its
\* first send; with nobody to send to it returns 0 at once and the cycle
\* awaits its 0.5 s pause.
StartItem(j, nv) ==
    LET rs == get_active_users(users)
    IN  /\ pc' = IF rs = <<>> THEN "pace" ELSE "send"
        /\ new_vacancies' = nv
        /\ vi' = j
        /\ recipients' = rs
        /\ ui' = IF rs = <<>> THEN 0 ELSE 1
        /\ sent_count' = 0
        /\ attempts' = <<>>
        /\ called' = Append(called, nv[j])

\* ------------------------------------------- format_vacancy_message
\* A JSON value of a listing record: a key that is absent, null, a string, a
\* number or an object.  Only the keys format_vacancy_message reads are kept.
\* The Russian texts of the message are written in Latin letters.
Missing == [tag |-> "missing"]
Null    == [tag |-> "null"]
Str(s)  == [tag |-> "str", val |-> s]
Num(n)  == [tag |-> "num", val |-> n]

\* dict.get(key, default) for the value x held under key: the default only
\* when the key is absent; a key that holds null gives None.
Get(x, default) == IF x.tag = "missing" THEN default ELSE x

\* Python truth of a value: None, 0, "" and {} are false.
Truthy(x) ==
    CASE x.tag = "num" -> x.val # 0
      [] x.tag = "str" -> x.val # ""
      [] x.tag = "obj" -> x.keys # {}
      [] OTHER -> FALSE

\* str(x) inside an f-string: None is printed as "None".
Text(x) == IF x.tag = "str" THEN x.val ELSE "None"

\* f"{n:,}".replace(",", " "): the digits in groups of three, most
\* significant first, separated by spaces.
RECURSIVE Grouped(_)
Grouped(n) == IF n < 1000 THEN <<n>> ELSE Append(Grouped(n \div 1000), n % 1000)

\* The salary line without any bound.
NotSpecified ==
    [prefix |-> "", lower |-> <<>>, sep |-> "", upper |-> <<>>, currency |-> "",
     text |-> "Ne ukazana"]

\* Lines 151-155: `if salary_from`, `elif salary_to`: the truth of the bound.
HasBound(x) == Truthy(x)

\* Lines 145-160: the salary line.
FormatSalary(salary_data) ==
    IF ~Truthy(salary_data) THEN NotSpecified
    ELSE LET salary_from == Get(salary_data.from, Null)
             salary_to   == Get(salary_data.to, Null)
             currency    == Text(Get(salary_data.currency, Str("")))
         IN  IF HasBound(salary_from) /\ HasBound(salary_to)
             THEN [prefix |-> "", lower |-> Grouped(salary_from.val), sep |-> "-",
                   upper |-> Grouped(salary_to.val), currency |-> currency, text |-> ""]
             ELSE IF HasBound(salary_from)
             THEN [prefix |-> "ot", lower |-> Grouped(salary_from.val), sep |-> "",
                   upper |-> <<>>, currency |-> currency, text |-> ""]
             ELSE IF HasBound(salary_to)
             THEN [prefix |-> "do", lower |-> <<>>, sep |-> "",
                   upper |-> Grouped(salary_to.val), currency |-> currency, text |-> ""]
             ELSE NotSpecified

\* x.get(...) on the value x: None has no get (AttributeError).
NoGet(x) == x.tag = "null"

\* Lines 163-170: the experience line.
experience_map(id) ==
    CASE id = "noExperience" -> "Bez opyta"
      [] id = "between1And3" -> "1-3 goda"
      [] id = "between3And6" -> "3-6 let"
      [] id = "moreThan6"    -> "Bolee 6 let"
      [] OTHER -> ""

FormatExperience(exp_data) ==
    LET id == Text(Get(exp_data.id, Str("")))
    IN  IF experience_map(id) # "" THEN experience_map(id)
        ELSE Text(Get(exp_data.name, Str("Ne ukazan")))

\* Lines 177-185: the date line.  A string that fromisoformat takes is
\* reformatted; one it refuses is printed as it is.
IsoDates == {"2024-01-03T10:00:00"}
Reformatted(d) == IF d = "2024-01-03T10:00:00" THEN "03.01.2024 10:00" ELSE d

FormatPublished(published) ==
    IF ~Truthy(published) THEN "Neizvestno"
    ELSE IF published.val \in IsoDates THEN Reformatted(published.val)
    ELSE published.val

\* Line 175: url.replace("hh.ru", "hh.uz").
ReplaceHost(u) == IF u = "https://hh.ru/vacancy/5" THEN "https://hh.uz/vacancy/5" ELSE u

AnObject == [tag |-> "obj", keys |-> {}, name |-> Missing, id |-> Missing]

\* format_vacancy_message, lines 141-196: the message, or raised when a
\* statement raises (a .get or .replace on None).
format_vacancy_message(rec) ==
    LET employer   == Get(rec.employer, AnObject)
        exp_data   == Get(rec.experience, AnObject)
        area       == Get(rec.area, AnObject)
        url        == Get(rec.alternate_url, Get(rec.url, Str("")))
    IN  IF NoGet(employer) \/ NoGet(exp_data) \/ NoGet(area) \/ url.tag = "null"
        THEN [raised |-> TRUE]
        ELSE [raised     |-> FALSE,
              title      |-> Text(Get(rec.name, Str("Bez nazvaniya"))),
              employer   |-> Text(Get(employer.name, Str("Kompaniya ne ukazana"))),
              area       |-> Text(Get(area.name, Str(""))),
              experience |-> FormatExperience(exp_data),
              salary     |-> FormatSalary(Get(rec.salary, Null)),
              published  |-> FormatPublished(Get(rec.published_at, Str(""))),
              url        |-> ReplaceHost(url.val)]

\* The listing records the API can hand over: every optional key absent,
\* null or filled.
Named(n) == [tag |-> "obj", keys |-> {"name"}, name |-> Str(n), id |-> Missing]
SalaryBounds == {Null, Num(0), Num(1500), Num(2500000)}
Salaries ==
    {Missing, Null} \cup
    {[tag |-> "obj", keys |-> {"from", "to", "currency"},
      from |-> f, to |-> t, currency |-> Str("UZS")] : f \in SalaryBounds, t \in SalaryBounds}
Vacancies ==
    [name          : {Missing, Null, Str("Lawyer")},
     employer      : {Missing, Null, Named("Lex")},
     area          : {Missing, Null, Named("Tashkent")},
     experience    : {Missing, Null,
                      [tag |-> "obj", keys |-> {"id", "name"},
                       id |-> Str("noExperience"), name |-> Str("Net opyta")]},
     salary        : Salaries,
     alternate_url : {Missing, Null, Str("https://hh.ru/vacancy/5")},
     url           : {Missing},
     published_at  : {Missing, Null, Str("2024-01-03T10:00:00"), Str("soon")}]

NoMessage == [raised |-> FALSE, title |-> ""]

\* ------------------------------------------------------------ history
\* The recipients whose deliveries are watched, where any are.
Watched == {MaxUsers}

NothingGot == [starts |-> 0, got |-> [v \in Ids |-> 0]]

\* Recipient t has sent /start: its first, or one more, after which it is
\* watched no longer.
Started(ib, t) ==
    IF t \in DOMAIN ib
    THEN [ib EXCEPT ![t] = IF @.starts = 0 THEN [NothingGot EXCEPT !.starts = 1]
                           ELSE [NothingGot EXCEPT !.starts = 2]]
    ELSE ib

\* Listing v has been delivered to recipient t (counted up to 2: twice or more).
Delivered(ib, t, v) ==
    IF t \in DOMAIN ib /\ ib[t].starts = 1
    THEN [ib EXCEPT ![t].got[v] = IF @ < 2 THEN @ + 1 ELSE @]
    ELSE ib

\* ------------------------------------------------------------ actions
Booted ==
    /\ users = <<>>
    /\ seen_vacancies = [v \in Ids |-> 0]
    /\ pc = "warmup"
    /\ new_vacancies = <<>>
    /\ vi = 0
    /\ recipients = <<>>
    /\ ui = 0
    /\ sent_count = 0
    /\ task = [t \in Tids |-> NoTask]
    /\ attempts = <<>>
    /\ called = <<>>
    /\ cycle = NoCycle

\* No call of format_vacancy_message or of list.sort is looked into.
NoCalls ==
    /\ vacancy = Missing
    /\ message = NoMessage
    /\ unsorted = <<>>
    /\ sorted = <<>>

\* The bot after post_init.
Init ==
    /\ Booted
    /\ NoCalls
    /\ inbox = <<>>

\* vacancy_checker, lines 328 and 338: the sleep is over, the loop calls
\* check_new_vacancies.
WakeUp ==
    /\ pc \in {"warmup", "sleep"}
    /\ pc' = "check"
    /\ cycle' = [cycle EXCEPT !.lost = {}, !.skipped = {}]
    /\ UNCHANGED <<users, seen_vacancies, task, checker_locals, calls, inbox>>

\* check_new_vacancies, lines 289-316, up to its first await: every pair is
\* fetched (resp[k] is how the request of pair k ends), the new listings are
\* marked and sorted, and the first one is rendered (wf: its record is well
\* formed; format_vacancy_message raises on a null nested object).
CheckNewVacancies(resp, wf) ==
    /\ pc = "check"
    /\ \E st \in {CheckLoop(1, resp, LoopStart(seen_vacancies))} :
       LET nv == SortDesc(st.new)
           err == IF st.raised THEN "fetch"
                  ELSE IF nv # <<>> /\ ~wf THEN "format"
                  ELSE "none"
       IN  /\ seen_vacancies' = st.seen
           /\ IF err # "none" \/ nv = <<>>
              THEN /\ EndCycle(err)
                   /\ cycle' = [NoCycle EXCEPT !.log = IF err = "none" THEN "no_new"
                                                      ELSE Logged(err),
                                               !.skipped = IF err = "none" THEN st.skipped
                                                           ELSE {},
                                               !.lost = Range(st.new)]
              ELSE /\ StartItem(1, nv)
                   /\ cycle' = [failed |-> st.failed, skipped |-> st.skipped,
                                log |-> "found", lost |-> {}]
    /\ UNCHANGED <<users, task, calls, inbox>>

\* send_to_all_users, lines 205-218: the awaited send to recipients[ui] ends
\* in o; then the next send is awaited, or the count is returned and the
\* cycle awaits its pause (line 318).  The 0.1 s sleep after a delivered
\* send is part of the step: the code behind it reads nothing but its own
\* locals.
SendReturns(o) ==
    /\ pc = "send"
    /\ LET t == recipients[ui]
       IN  IF o = "ok" \/ IsCaught(o)
           THEN /\ users' = IF o # "ok" /\ IsBlocked(o)
                            THEN deactivate_user(users, t) ELSE users
                /\ sent_count' = IF o = "ok" THEN sent_count + 1 ELSE sent_count
                /\ attempts' = Append(attempts, [tid |-> t, outcome |-> o])
                /\ inbox' = IF o = "ok" THEN Delivered(inbox, t, new_vacancies[vi])
                             ELSE inbox
                /\ IF ui < Len(recipients)
                   THEN ui' = ui + 1 /\ pc' = "send"
                   ELSE ui' = ui /\ pc' = "pace"
                /\ cycle' = [NoCycle EXCEPT !.log = cycle.log]
                /\ UNCHANGED <<new_vacancies, vi, recipients, called>>
           ELSE /\ EndCycle("send")
                /\ cycle' = [NoCycle EXCEPT !.log = Logged("send"),
                                            !.lost = {new_vacancies[k] :
                                                         k \in vi + 1..Len(new_vacancies)}]
                /\ users' = users
                /\ inbox' = inbox
    /\ UNCHANGED <<seen_vacancies, task, calls>>

\* check_new_vacancies, lines 314-318: the pause is over; the next listing,
\* or the cycle is done.
Paced(wf) ==
    /\ pc = "pace"
    /\ IF vi < Len(new_vacancies)
       THEN IF wf
            THEN StartItem(vi + 1, new_vacancies)
                 /\ cycle' = [NoCycle EXCEPT !.log = cycle.log]
            ELSE /\ EndCycle("format")
                 /\ cycle' = [NoCycle EXCEPT !.log = Logged("format"),
                                             !.lost = {new_vacancies[k] :
                                                          k \in vi + 1..Len(new_vacancies)}]
       ELSE EndCycle("none") /\ cycle' = [NoCycle EXCEPT !.log = Logged("none")]
    /\ UNCHANGED <<users, seen_vacancies, task, calls, inbox>>

\* start_command: the upsert, the reply (reply_ok: reply_html did not raise)
\* and, after it, the task that sends the current listings.  At most
\* MaxTasks such tasks are alive at a time, and one per chat id.
StartCommand(t, n, reply_ok) ==
    /\ reply_ok => /\ task[t].pc = "none"
                    /\ Cardinality({u \in Tids : task[u].pc # "none"}) < MaxTasks
    /\ users' = get_or_create_user(users, t, n)
    /\ task' = IF reply_ok THEN [task EXCEPT ![t] = [NoTask EXCEPT !.pc = "delay"]]
               ELSE task
    /\ inbox' = Started(inbox, t)
    /\ UNCHANGED <<seen_vacancies, pc, checker_locals, cycle, calls>>

\* stop_command.
StopCommand(t) ==
    /\ users' = deactivate_user(users, t)
    /\ UNCHANGED <<seen_vacancies, pc, checker_locals, task, cycle, calls, inbox>>

\* The loop with its trailer test off by one: a trailer when the list just
\* fills the cap.
CatchUpNextTrailer(t, j, go_on, wf) ==
    LET all == task[t].all_vacancies
    IN  IF go_on /\ j <= Len(all) /\ j <= CatchUpLimit
        THEN IF wf THEN [task EXCEPT ![t].pc = "item", ![t].i = j,
                                     ![t].sent = Append(@, Item(all[j]))]
             ELSE [task EXCEPT ![t] = NoTask]
        ELSE IF Len(all) >= CatchUpLimit
             THEN [task EXCEPT ![t].pc = "footer", ![t].i = 0,
                               ![t].sent = Append(@, Footer(Len(all) - CatchUpLimit)),
                               ![t].ok = go_on]
             ELSE [task EXCEPT ![t] = NoTask]

\* The loop of send_existing_vacancies_to_user, lines 262-284, from listing j
\* on: the next listing is rendered and its send awaited, or the loop is over
\* and the trailing message is awaited, or the task is done.
CatchUpNext(t, j, go_on, wf) ==
    LET all == task[t].all_vacancies
    IN  IF go_on /\ j <= Len(all) /\ j <= CatchUpLimit
        THEN IF wf THEN [task EXCEPT ![t].pc = "item", ![t].i = j,
                                     ![t].sent = Append(@, Item(all[j]))]
             ELSE [task EXCEPT ![t] = NoTask]
        ELSE IF Len(all) > CatchUpLimit
             THEN [task EXCEPT ![t].pc = "footer", ![t].i = 0,
                               ![t].sent = Append(@, Footer(Len(all) - CatchUpLimit)),
                               ![t].ok = go_on]
             ELSE [task EXCEPT ![t] = NoTask]

\* send_existing_vacancies_to_user, lines 225-254: after the 1 s delay every
\* pair is fetched and marked, the list is sorted and the header send awaited.
CatchUpFetch(t, resp) ==
    /\ task[t].pc = "delay"
    /\ \E st \in {CatchUpLoop(1, resp, LoopStart(seen_vacancies))} :
       LET all == SortDesc(st.new)
       IN  /\ seen_vacancies' = st.seen
           /\ task' = IF st.raised \/ all = <<>>
                      THEN [task EXCEPT ![t] = NoTask]
                      ELSE [task EXCEPT ![t] = [pc |-> "header", all_vacancies |-> all,
                                                i |-> 0, sent |-> <<Header(Len(all))>>,
                                                ok |-> TRUE]]
    /\ UNCHANGED <<users, pc, checker_locals, cycle, calls, inbox>>

\* lines 249-264: the header send ends in o.
CatchUpHeader(t, o, wf) ==
    /\ task[t].pc = "header"
    /\ task' = IF o = "ok" THEN CatchUpNext(t, 1, TRUE, wf)
               ELSE [task EXCEPT ![t] = NoTask]
    /\ UNCHANGED <<users, seen_vacancies, pc, checker_locals, cycle, calls, inbox>>

\* lines 262-276: the send of all_vacancies[i] ends in o.
CatchUpItem(t, o, wf) ==
    /\ task[t].pc = "item"
    /\ task' = CatchUpNext(t, task[t].i + 1, o = "ok", wf)
    /\ inbox' = IF o = "ok" THEN Delivered(inbox, t, task[t].all_vacancies[task[t].i])
                 ELSE inbox
    /\ UNCHANGED <<users, seen_vacancies, pc, checker_locals, cycle, calls>>

\* lines 276-284: the trailing send ends, either way.
CatchUpFooter(t, o) ==
    /\ task[t].pc = "footer"
    /\ task' = [task EXCEPT ![t] = NoTask]
    /\ UNCHANGED <<users, seen_vacancies, pc, checker_locals, cycle, calls, inbox>>

Responses == [Pairs -> FetchOutcomes]

\* The ways the requests of one fetch loop can end when each gets its answer.
Answered == {resp \in Responses : \A k \in Pairs : resp[k].kind = "ok"}

Checker ==
    \/ WakeUp
    \/ \E resp \in Responses, wf \in BOOLEAN : CheckNewVacancies(resp, wf)
    \/ \E o \in SendOutcomes : SendReturns(o)
    \/ \E wf \in BOOLEAN : Paced(wf)

Commands ==
    \/ \E t \in Tids, r \in BOOLEAN : \E n \in NamesOf(t) : StartCommand(t, n, r)
    \/ \E t \in Tids : StopCommand(t)

CatchUp ==
    \/ \E t \in Tids, resp \in Responses : CatchUpFetch(t, resp)
    \/ \E t \in Tids, o \in SendOutcomes, wf \in BOOLEAN : CatchUpHeader(t, o, wf)
    \/ \E t \in Tids, o \in SendOutcomes, wf \in BOOLEAN : CatchUpItem(t, o, wf)
    \/ \E t \in Tids, o \in SendOutcomes : CatchUpFooter(t, o)

Next == Checker \/ Commands \/ CatchUp

Spec == Init /\ [][Next]_vars

\* The bot after post_init, with the deliveries to some recipients watched.
AuditInit ==
    /\ Booted
    /\ NoCalls
    /\ inbox = [t \in Watched |-> NothingGot]

\* The bot where every request is answered and every record is well formed:
\* the steps of Next with these inputs.
AuditNext ==
    \/ WakeUp
    \/ \E resp \in Answered : CheckNewVacancies(resp, TRUE)
    \/ \E o \in SendOutcomes : SendReturns(o)
    \/ Paced(TRUE)
    \/ Commands
    \/ \E t \in Tids, resp \in Answered : CatchUpFetch(t, resp)
    \/ \E t \in Tids, o \in SendOutcomes : CatchUpHeader(t, o, TRUE)
    \/ \E t \in Tids, o \in SendOutcomes : CatchUpItem(t, o, TRUE)
    \/ \E t \in Tids, o \in SendOutcomes : CatchUpFooter(t, o)

AuditSpec == AuditInit /\ [][AuditNext]_vars

\* format_vacancy_message on its own: called once for any record.
RenderInit ==
    /\ Booted
    /\ vacancy \in Vacancies
    /\ message = NoMessage
    /\ unsorted = <<>>
    /\ sorted = <<>>
    /\ inbox = <<>>

FormatVacancyMessage ==
    /\ message = NoMessage
    /\ message' = format_vacancy_message(vacancy)
    /\ UNCHANGED <<vacancy, unsorted, sorted, inbox, bot_vars>>

RenderSpec == RenderInit /\ [][FormatVacancyMessage]_vars

\* list.sort(key=published_at, reverse=True) on its own (lines 242-245 and
\* 306-309): called once for any list the fetch loops can leave.
SortInit ==
    /\ Booted
    /\ vacancy = Missing
    /\ message = NoMessage
    /\ unsorted \in DistinctSeqs(1..MaxSortId, MaxSortLen)
    /\ sorted = <<>>
    /\ inbox = <<>>

Sort ==
    /\ sorted = <<>>
    /\ unsorted # <<>>
    /\ sorted' = SortDesc(unsorted)
    /\ UNCHANGED <<vacancy, message, unsorted, inbox, bot_vars>>

SortSpec == SortInit /\ [][Sort]_vars

\* The event loop resumes the checker when what it awaits is over: its sleeps
\* end, and its requests and sends return or time out.
FairSpec == Spec /\ WF_vars(Checker)

\* ------------------------------------------------------------ claims
Count(s, x) == Cardinality({i \in 1..Len(s) : s[i] = x})
NoDuplicates(s) == \A i, j \in 1..Len(s) : s[i] = s[j] => i = j
\* The seen store holds a row for v.
Recorded(v) == seen_vacancies[v] > 0

\* C1: a listing that is recorded as seen when a cycle runs is not selected
\* by that cycle and send_to_all_users is not called for it: a step never
\* brings a seen id that the cycle has not itself selected into
\* new_vacancies or into the listings broadcast.
C1_SeenNotReselected ==
    [][\A v \in Ids :
          Recorded(v) /\ v \notin Range(new_vacancies)
          => v \notin Range(new_vacancies') /\ v \notin Range(called')]_vars

\* A cycle is broadcasting, and its fetch loop met a listing that it did not
\* take and that is not among its new ones: one that was seen before.
C1_Witness ==
    /\ pc = "send"
    /\ \E v \in cycle.skipped : v \notin Range(new_vacancies)

\* C2: a listing returned by several pairs of one cycle is in new_vacancies
\* once and send_to_all_users is called for it once: new_vacancies holds no
\* id twice; a fetch loop that is not cut short by an exception puts every
\* unseen id that any pair returned into it exactly once; the calls follow
\* the list, one per entry, and a cycle that returns has called it for each.
C2_OncePerCycle ==
    [][/\ NoDuplicates(new_vacancies') /\ NoDuplicates(called')
       /\ pc' \in {"send", "pace"} => called' = SubSeq(new_vacancies', 1, vi')
       /\ pc \in {"send", "pace"} /\ cycle'.log = "done" => called = new_vacancies
       /\ pc = "check" /\ pc' \in {"send", "pace"}
          => \A resp \in Responses :
                (\E wf \in BOOLEAN : CheckNewVacancies(resp, wf))
                => \A k \in Pairs : \A v \in Range(resp[k].items) :
                      ~Recorded(v) => Count(new_vacancies', v) = 1]_vars

\* The last listing of a cycle has been broadcast, and the fetch loop had met
\* it a second time.
C2_Witness ==
    /\ pc = "pace" /\ vi = Len(new_vacancies)
    /\ \E v \in cycle.skipped : v \in Range(new_vacancies) /\ Count(called, v) = 1

\* C3: marking an id twice leaves one row for it, whatever is marked in
\* between, and no id ever has more than one row.
C3_MarkIdempotent ==
    /\ \A v \in Ids : seen_vacancies[v] <= 1
    /\ \A v, w \in Ids :
          LET once == mark_vacancy_seen(seen_vacancies, v)
              more == mark_vacancy_seen(mark_vacancy_seen(once, w), v)
          IN  /\ once[v] = 1
              /\ more[v] = 1
              /\ more = mark_vacancy_seen(once, w)

RowOf(us, t) == us[CHOOSE i \in 1..Len(us) : us[i].telegram_id = t]
HasRow(us, t) == \E i \in 1..Len(us) : us[i].telegram_id = t
\* The failures that say the recipient has blocked the bot or is gone.
Unreachable == {"blocked", "deactivated"}

\* The cycle has marked a listing it is now broadcasting, and a catch-up task
\* that fetched the same listing has marked it again.
C3_Witness ==
    /\ pc \in {"send", "pace"}
    /\ \E t \in Tids : task[t].pc = "header"
          /\ \E v \in Range(task[t].all_vacancies) :
                v \in Range(new_vacancies) /\ seen_vacancies[v] = 1


\* C4: there is at most one row per chat id; /start for an id without a row
\* adds one active row, /start for an id with a row adds none, sets that row
\* active and takes the first_name sent with it, if any.
C4_OneRowPerId ==
    /\ [](\A t \in Tids : Cardinality({i \in 1..Len(users) : users[i].telegram_id = t}) <= 1)
    /\ [][\A t \in Tids, r \in BOOLEAN : \A n \in NamesOf(t) :
            StartCommand(t, n, r)
            => IF HasRow(users, t)
               THEN /\ Len(users') = Len(users)
                    /\ \A i \in 1..Len(users) :
                          users'[i] = IF users[i].telegram_id = t
                                      THEN [telegram_id |-> t, is_active |-> TRUE,
                                            first_name |-> IF n # None THEN n
                                                           ELSE users[i].first_name]
                                      ELSE users[i]
               ELSE users' = Append(users, [telegram_id |-> t, first_name |-> n,
                                            is_active |-> TRUE])]_vars

\* A row that is older than the row of a current recipient was not active when
\* the recipients were read, and is active now: it was subscribed, deactivated
\* and subscribed again, and is still one row.
C4_Witness ==
    /\ pc = "send"
    /\ \E i, j \in 1..Len(users) :
          /\ i < j
          /\ users[i].is_active /\ users[i].first_name = "Ann"
          /\ users[i].telegram_id \notin Range(recipients)
          /\ users[j].telegram_id \in Range(recipients)

\* C5: deactivating twice is deactivating once: the flag is false after the
\* first call and after the second, the table keeps its length and its other
\* rows, and an id without a row gets none.
C5_DeactivateIdempotent ==
    /\ [](\A t \in Tids :
            LET once  == deactivate_user(users, t)
                twice == deactivate_user(once, t)
            IN  /\ Len(once) = Len(users)
                /\ twice = once
                /\ \A i \in 1..Len(users) :
                      once[i] = IF users[i].telegram_id = t
                                THEN [users[i] EXCEPT !.is_active = FALSE]
                                ELSE users[i])
    /\ [][\A t \in Tids :
            StopCommand(t)
            => /\ Len(users') = Len(users)
               /\ \A i \in 1..Len(users) :
                     users'[i] = IF users[i].telegram_id = t
                                 THEN [users[i] EXCEPT !.is_active = FALSE]
                                 ELSE users[i]]_vars

\* A send has just failed with "blocked" and deactivated its recipient, whose
\* row is inactive, and another chat id has no row.
C5_Witness ==
    /\ attempts # <<>>
    /\ attempts[Len(attempts)].outcome = "blocked"
    /\ ~RowOf(users, attempts[Len(attempts)].tid).is_active
    /\ \E u \in Tids : ~HasRow(users, u)

\* C6: a row is never removed; its flag goes from true to false only in a
\* /stop of its chat id or in a send to it that fails as blocked or
\* deactivated, and from false to true only in a /start of its chat id.
C6_Lifecycle ==
    [][/\ Len(users') >= Len(users)
       /\ \A i \in 1..Len(users) :
             /\ users'[i].telegram_id = users[i].telegram_id
             /\ users[i].is_active /\ ~users'[i].is_active
                => \/ StopCommand(users[i].telegram_id)
                   \/ /\ pc = "send" /\ recipients[ui] = users[i].telegram_id
                      /\ \E o \in Unreachable : SendReturns(o)
             /\ ~users[i].is_active /\ users'[i].is_active
                => \E r \in BOOLEAN : \E n \in NamesOf(users[i].telegram_id) :
                      StartCommand(users[i].telegram_id, n, r)]_vars

\* Every chat id has its row; one was deactivated by a send that failed with
\* "user is deactivated" and its row is still there, inactive.
C6_Witness ==
    /\ Len(users) = MaxUsers
    /\ \E k \in 1..Len(attempts) :
          /\ attempts[k].outcome = "deactivated"
          /\ ~RowOf(users, attempts[k].tid).is_active
    /\ \E i \in 1..Len(users) : users[i].is_active

\* C7: send_to_all_users attempts a send to every recipient of its list, in
\* order, whatever failed before; it never raises; and sent_count is the
\* number of sends that succeeded, so on return (the cycle is at its pause)
\* every recipient has been attempted and the count returned is that number.
C7_BroadcastCompletes ==
    /\ cycle.log # "send"
    /\ pc \in {"send", "pace"} =>
          /\ Len(attempts) = IF pc = "pace" THEN Len(recipients) ELSE ui - 1
          /\ \A k \in 1..Len(attempts) : attempts[k].tid = recipients[k]
          /\ sent_count = Cardinality({k \in 1..Len(attempts) : attempts[k].outcome = "ok"})

\* send_to_all_users has returned 1: the send to its first recipient failed
\* and the send to the one after it was made and succeeded.
C7_Witness ==
    /\ pc = "pace" /\ Len(recipients) = 2 /\ sent_count = 1
    /\ attempts[1].outcome # "ok" /\ attempts[2].outcome = "ok"

\* C8: a send that fails as blocked or deactivated leaves its recipient
\* inactive and the broadcast going; a send that ends in any other way changes
\* no row; and no send changes the row of anyone but its recipient.
C8_BlockedDeactivates ==
    [][\A o \in SendOutcomes :
          SendReturns(o)
          => /\ pc' \in {"send", "pace"}
             /\ Len(attempts') = Len(attempts) + 1
             /\ o \in Unreachable => ~RowOf(users', recipients[ui]).is_active
             /\ o \notin Unreachable => users' = users
             /\ Len(users') = Len(users)
             /\ \A i \in 1..Len(users) :
                   users[i].telegram_id # recipients[ui] => users'[i] = users[i]]_vars

\* In one broadcast a send failed otherwise and its recipient is still active,
\* and the last send failed with "blocked" and its recipient is inactive.
C8_Witness ==
    /\ pc = "pace" /\ Len(attempts) = 2
    /\ attempts[1].outcome = "other" /\ RowOf(users, attempts[1].tid).is_active
    /\ attempts[2].outcome = "blocked" /\ ~RowOf(users, attempts[2].tid).is_active

\* C9: no error of a cycle ends the loop: whatever the last cycle logged, an
\* error or none, the loop sleeps after it, the sleep is left only for the
\* next cycle, and the next cycle does start.
C9_LoopGoesOn ==
    /\ [](pc # "dead")
    /\ [][pc = "sleep" /\ pc' # "sleep" => pc' = "check" /\ cycle'.log = cycle.log]_vars
    /\ (pc = "sleep") ~> (pc = "check")

\* A cycle raised out of its fetch loop, the loop slept, and the next cycle
\* is about to run.
C9_Witness ==
    pc = "check" /\ cycle.log = "fetch"

\* The ways the requests of one fetch loop can end with no other failure than
\* a RequestException.
QuietResponses ==
    {resp \in Responses : \A k \in Pairs : resp[k].kind \in RequestException \cup {"ok"}}

\* C10: a request that ends in a RequestException gives its caller an empty
\* list and no exception; so wherever a cycle or a catch-up is about to run
\* its fetch loop, whichever requests fail that way, the loop is not left by
\* an exception and goes through every pair: each listing that any pair
\* returns is recorded, is among the new ones of the cycle if it was not
\* recorded before, and is in the list of the catch-up.
C10_FetchFailureContained ==
    /\ \A o \in FetchOutcomes :
          o.kind \in {"connection", "timeout", "http"}
          => fetch_vacancies(o) = [raised |-> FALSE, items |-> <<>>]
    /\ pc = "check" =>
          \A resp \in QuietResponses :
             LET st == CheckLoop(1, resp, LoopStart(seen_vacancies))
             IN  /\ ~st.raised
                 /\ \A k \in Pairs : \A v \in Range(resp[k].items) :
                       /\ st.seen[v] = 1
                       /\ ~Recorded(v) => Count(st.new, v) = 1
    /\ (\E t \in Tids : task[t].pc = "delay") =>
          \A resp \in QuietResponses :
             LET st == CatchUpLoop(1, resp, LoopStart(seen_vacancies))
             IN  /\ ~st.raised
                 /\ \A k \in Pairs : \A v \in Range(resp[k].items) :
                       /\ st.seen[v] = 1
                       /\ Count(st.new, v) = 1

\* The request of the first pair failed, and the cycle is broadcasting a
\* listing, which a later pair returned.
C10_Witness ==
    /\ pc = "send"
    /\ 1 \in cycle.failed
    /\ new_vacancies # <<>>

\* C11: a listing is recorded before any send of it is attempted, in the cycle
\* and in the catch-up alike: every listing a cycle has selected and every
\* listing in the list of a catch-up task has its row; a row is never
\* removed; so the listings a cycle had selected and not yet broadcast when
\* an exception ended it stay recorded, and no later step selects a recorded
\* listing or broadcasts one of them again.
C11_MarkedBeforeSent ==
    /\ [](/\ \A v \in Range(new_vacancies) : seen_vacancies[v] = 1
          /\ \A t \in Tids : \A v \in Range(task[t].all_vacancies) : seen_vacancies[v] = 1
          /\ \A v \in cycle.lost : seen_vacancies[v] = 1)
    /\ [][\A v \in Ids :
            /\ seen_vacancies[v] > 0 => seen_vacancies'[v] > 0
            /\ seen_vacancies[v] > 0 /\ pc \in {"warmup", "sleep", "check"}
               => v \notin Range(new_vacancies') /\ v \notin Range(called')
            /\ v \in cycle.lost
               => v \notin Range(new_vacancies') /\ v \notin Range(called')]_vars

\* A cycle was ended by an exception of its fetch loop after it had selected
\* a listing: the loop sleeps, the listing is recorded, it was broadcast to
\* nobody, and there is a subscriber it would have gone to.
C11_Witness ==
    /\ pc = "sleep" /\ cycle.log = "fetch"
    /\ cycle.lost # {}
    /\ \A v \in cycle.lost : seen_vacancies[v] = 1
    /\ \E i \in 1..Len(users) : users[i].is_active

Min(a, b) == IF a < b THEN a ELSE b

\* The listings of a list are in the order newest first.
NewestFirst(s) ==
    \A a, b \in 1..Len(s) : a < b => published_at(s[a]) >= published_at(s[b])

\* What a catch-up whose list is all sends when no send fails: the header
\* with the count, the first listings of the list up to the cap, and the
\* trailer with the count of the others if there are more than the cap.
Expected(all) ==
    <<Header(Len(all))>>
    \o [k \in 1..Min(Len(all), CatchUpLimit) |-> Item(all[k])]
    \o (IF Len(all) > CatchUpLimit THEN <<Footer(Len(all) - CatchUpLimit)>> ELSE <<>>)

\* The sends of a catch-up task that are over or awaited.
Progress(t) ==
    IF task[t].pc = "header" THEN 1
    ELSE IF task[t].pc = "item" THEN 1 + task[t].i
    ELSE Len(Expected(task[t].all_vacancies))

C13_CatchUpRecordsAll ==
    /\ [](\A t \in Tids :
            /\ \A k \in 1..Len(task[t].all_vacancies) :
                  seen_vacancies[task[t].all_vacancies[k]] = 1
            /\ task[t].pc = "delay" =>
                  \A resp \in Responses :
                     LET st == CatchUpLoop(1, resp, LoopStart(seen_vacancies))
                     IN  /\ \A v \in Range(st.new) : st.seen[v] = 1
                         /\ \A v \in Ids : seen_vacancies[v] > 0 => st.seen[v] > 0
                         /\ ~st.raised =>
                               \A k \in Pairs : \A v \in Range(resp[k].items) :
                                  st.seen[v] = 1)
    /\ [](pc = "check" =>
            \A resp \in Responses :
               LET st == CheckLoop(1, resp, LoopStart(seen_vacancies))
               IN  \A v \in Ids : seen_vacancies[v] > 0 => v \notin Range(st.new))
    /\ [][\A v \in Ids : seen_vacancies[v] > 0 => seen_vacancies'[v] > 0]_vars

\* A catch-up fetched more listings than the cap and the send of its one
\* listing failed; the listing behind the cap is recorded, another chat id is
\* subscribed, and a cycle is about to run.
C13_Witness ==
    /\ pc = "check"
    /\ \E t \in Tids :
          /\ task[t].pc = "footer" /\ ~task[t].ok
          /\ Len(task[t].all_vacancies) > CatchUpLimit
          /\ seen_vacancies[task[t].all_vacancies[CatchUpLimit + 1]] = 1
          /\ \E i \in 1..Len(users) : users[i].is_active /\ users[i].telegram_id # t

\* Where x is in s.
IndexOf(s, x) == CHOOSE i \in 1..Len(s) : s[i] = x

\* C14: the list that is notified is the fetched one in the order of
\* published_at, latest first, and listings with the same published_at keep
\* the order in which they were fetched: the sorted list holds the listings
\* of the fetched one, each once; a listing never stands before one that was
\* published later; two listings published at the same time stand as they
\* were fetched; and listings fetched in the order second, third, first by
\* time (published_at 2, 0, 1) come out first, second, third (2, 1, 0).
C14_NewestFirstStable ==
    sorted # <<>> =>
        /\ Len(sorted) = Len(unsorted)
        /\ \A x \in 1..MaxSortId : Count(sorted, x) = Count(unsorted, x)
        /\ \A a, b \in 1..Len(sorted) :
              a < b => published_at(sorted[a]) >= published_at(sorted[b])
        /\ \A a, b \in 1..Len(unsorted) :
              a < b /\ unsorted[a] % 3 = unsorted[b] % 3
              => IndexOf(sorted, unsorted[a]) < IndexOf(sorted, unsorted[b])
        /\ [k \in 1..Len(unsorted) |-> unsorted[k] % 3] = <<2, 0, 1>>
           => [k \in 1..Len(sorted) |-> sorted[k] % 3] = <<2, 1, 0>>

\* A list of three was sorted: the latest listing, fetched second, stands
\* first, and behind it the two that were published at the same time, in the
\* order in which they were fetched.
C14_Witness ==
    /\ Len(unsorted) = 3 /\ Len(sorted) = 3
    /\ sorted = <<unsorted[2], unsorted[1], unsorted[3]>>
    /\ unsorted[1] % 3 = unsorted[3] % 3
    /\ unsorted[2] % 3 > unsorted[1] % 3

\* The number a salary text shows: its groups of three digits read as one number.
RECURSIVE Shown(_)
Shown(groups) ==
    IF groups = <<>> THEN 0
    ELSE Shown(SubSeq(groups, 1, Len(groups) - 1)) * 1000 + groups[Len(groups)]

\* A bound that is there: the key holds a number.
Present(x) == x.tag = "num"

\* C15: the salary text has one of four shapes, by the bounds that are there:
\* both (whatever their values, 0 too): both values and the currency; only
\* from: the lower bound behind "ot"; only to: the upper bound behind "do";
\* neither, or no salary object: "Ne ukazana".
C15_SalaryShapes ==
    (message # NoMessage /\ ~message.raised) =>
        LET sal == vacancy.salary
            out == message.salary
        IN  IF sal.tag # "obj" THEN out.text = "Ne ukazana"
            ELSE IF Present(sal.from) /\ Present(sal.to)
            THEN /\ out.lower # <<>> /\ Shown(out.lower) = sal.from.val
                 /\ out.upper # <<>> /\ Shown(out.upper) = sal.to.val
                 /\ out.currency = sal.currency.val
                 /\ out.prefix = "" /\ out.text = ""
            ELSE IF Present(sal.from)
            THEN /\ out.prefix = "ot"
                 /\ out.lower # <<>> /\ Shown(out.lower) = sal.from.val
                 /\ out.upper = <<>> /\ out.text = ""
            ELSE IF Present(sal.to)
            THEN /\ out.prefix = "do"
                 /\ out.upper # <<>> /\ Shown(out.upper) = sal.to.val
                 /\ out.lower = <<>> /\ out.text = ""
            ELSE out.text = "Ne ukazana"

\* C16: a mark of a listing that is recorded already, by another catch-up or
\* by the cycle, is a no-op and no error: no listing ever has two rows;
\* wherever a catch-up or a cycle is about to run its fetch loop, whatever
\* rows there are and whatever the requests return, the loop is not left by
\* an exception, every row that was there is there once, every listing
\* returned has one row, and the catch-up has each listing returned in its
\* list, recorded before or not.
C16_SecondMarkNoOp ==
    /\ \A v \in Ids : seen_vacancies[v] <= 1
    /\ \A t \in Tids :
          task[t].pc = "delay" =>
             \A resp \in Answered :
                LET st == CatchUpLoop(1, resp, LoopStart(seen_vacancies))
                IN  /\ ~st.raised
                    /\ \A v \in Ids :
                          st.seen[v] = IF seen_vacancies[v] = 1
                                          \/ \E k \in Pairs : v \in Range(resp[k].items)
                                       THEN 1 ELSE 0
                    /\ Range(st.new) = UNION {Range(resp[k].items) : k \in Pairs}
    /\ pc = "check" =>
          \A resp \in Answered :
             LET st == CheckLoop(1, resp, LoopStart(seen_vacancies))
             IN  /\ ~st.raised
                 /\ \A v \in Ids :
                       st.seen[v] = IF seen_vacancies[v] = 1
                                       \/ \E k \in Pairs : v \in Range(resp[k].items)
                                    THEN 1 ELSE 0

\* Two catch-up tasks are sending at once, for two chat ids that subscribed
\* one after the other; both fetched the same listing, both have it in
\* their lists, and it has one row.
C16_Witness ==
    \E t, u \in Tids :
       /\ t # u
       /\ task[t].pc \in {"header", "item", "footer"}
       /\ task[u].pc \in {"header", "item", "footer"}
       /\ \E v \in Range(task[t].all_vacancies) :
             v \in Range(task[u].all_vacancies) /\ seen_vacancies[v] = 1

\* A key that is absent or holds null.
Absent(x) == x.tag \in {"missing", "null"}

\* C17: format_vacancy_message does not raise, whichever optional keys of the
\* record are absent or null, and the message shows the fallback text of
\* each such key.
C17_RenderNeverFatal ==
    message # NoMessage =>
        /\ ~message.raised
        /\ Absent(vacancy.name) => message.title = "Bez nazvaniya"
        /\ Absent(vacancy.employer) => message.employer = "Kompaniya ne ukazana"
        /\ Absent(vacancy.area) => message.area = ""
        /\ Absent(vacancy.experience) => message.experience = "Ne ukazan"
        /\ Absent(vacancy.salary) => message.salary.text = "Ne ukazana"
        /\ Absent(vacancy.alternate_url) /\ Absent(vacancy.url) => message.url = ""
        /\ Absent(vacancy.published_at) => message.published = "Neizvestno"

\* The ways the requests of one fetch loop can end with every pair giving the
\* cycle an empty list or listings that have their rows.  (A request that
\* fails with a RequestException gives an empty list.)
NothingNew ==
    {resp \in QuietResponses :
        \A k \in Pairs : \A v \in Range(resp[k].items) : seen_vacancies[v] > 0}

\* C18: a cycle whose requests return nothing, or recorded listings only, is
\* a no-op: wherever a cycle is about to run, for every such outcome of its
\* requests, its fetch loop is not left by an exception, selects nothing and
\* leaves the seen store as it is; and the step of a cycle whose fetch loop
\* did so (it raised nothing and added no row) starts no send, calls
\* send_to_all_users for nothing, changes no row of the users, no task and no
\* delivery, logs that nothing is new and leaves the loop asleep.
C18_NothingNewNoOp ==
    /\ [](pc = "check" =>
            \A resp \in NothingNew :
               LET st == CheckLoop(1, resp, LoopStart(seen_vacancies))
               IN  /\ ~st.raised
                   /\ st.new = <<>>
                   /\ st.seen = seen_vacancies)
    /\ [][pc = "check" /\ pc' # "check"
          /\ seen_vacancies' = seen_vacancies /\ cycle'.log # "fetch"
          => /\ pc' = "sleep" /\ cycle'.log = "no_new"
             /\ new_vacancies' = <<>> /\ called' = <<>> /\ attempts' = <<>>
             /\ recipients' = <<>> /\ sent_count' = 0
             /\ seen_vacancies' = seen_vacancies
             /\ users' = users
             /\ task' = task
             /\ inbox' = inbox]_vars

\* A cycle has found nothing new and the loop sleeps: its requests returned
\* a listing, which had its row, and there is a subscriber.
C18_Witness ==
    /\ pc = "sleep" /\ cycle.log = "no_new"
    /\ \E v \in cycle.skipped : seen_vacancies[v] = 1
    /\ new_vacancies = <<>> /\ attempts = <<>>
    /\ \E i \in 1..Len(users) : users[i].is_active

\* C19: a recipient that has sent /start once is delivered no listing twice,
\* by its catch-up and the broadcasts together.
C19_NoListingTwice ==
    \A t \in DOMAIN inbox :
       inbox[t].starts = 1 => \A v \in Ids : inbox[t].got[v] <= 1

\* The row of chat id t says it is subscribed.
IsActive(us, t) == \E i \in 1..Len(us) : us[i].telegram_id = t /\ us[i].is_active

\* C20: a listing is sent to active subscribers only: whenever a step starts
\* the send of a listing, in a broadcast or in a catch-up, the row of its
\* recipient is active then.
C20_OnlyActiveNotified ==
    [][/\ pc' = "send" /\ (pc # "send" \/ ui' # ui)
          => IsActive(users', recipients'[ui'])
       /\ \A t \in Tids :
             task'[t].pc = "item" /\ task[t].pc # "item"
             => IsActive(users', t)]_vars

=============================================================================
